---- MODULE Spec2Model ----
(***************************************************************************)
(* Model of the OTT release backend: the scraper (scrapper.py), the update *)
(* orchestrator (auto_update.py) and the /movies endpoint (app.py), all    *)
(* working on one data directory: data/movies.json, the archival backups   *)
(* movies_backup_<ts>.json, the safety snapshots movies_safety_<ts>.json   *)
(* and the orchestrator's logs update_<yyyymmdd>.log.                      *)
(*                                                                         *)
(* Time is counted in days since the first day of the model (now); the     *)
(* file names' %Y%m%d_%H%M%S stamps are a strictly increasing counter      *)
(* (stamp), so that the lexicographic order of names is their order of     *)
(* creation.  A text of the source table is a sequence of whitespace       *)
(* separated words.                                                        *)
(***************************************************************************)
EXTENDS Integers, Sequences, FiniteSets, TLC

\* ------------------------------------------------------------------ bounds
MaxCycles == 3
MaxRows == 2
MaxFaults == 1
\* cycles of the orchestrator while the serving layer runs beside it
MaxServedCycles == 2
\* length of the lists given to the sort alone
MaxSortLen == 3
\* length of the lists in the files given to the validation alone
MaxFileLen == 3

\* auto_update.py:40
BACKUP_RETENTION_DAYS == 30

\* Days between two runs of the orchestrator (a daily cron job, or one that
\* was down for a month).
DaySteps == {1, 31}

VARIABLES
    now,        \* the day
    stamp,      \* the last %Y%m%d_%H%M%S stamp given to a file name
    dataFile,   \* data/movies.json
    backups,    \* data/movies_backup_<stamp>.json
    safeties,   \* data/movies_safety_<stamp>.json
    logs,       \* logs/update_<day>.log, by day
    pc,         \* where the orchestrator (and the scraper it waits for) is
    pending,    \* updated_movies of the running save_to_file
    cyc,        \* what the running (or last) cycle did
    prev,       \* what the cycle before it did, and the cycles before it
    cycles,     \* number of cycles started
    faults,     \* number of I/O faults and late kills so far
    resp        \* the response to GET /movies sent in the last step

vars == <<now, stamp, dataFile, backups, safeties, logs, pc, pending, cyc, prev,
          cycles, faults, resp>>

\* ------------------------------------------------------------------ records
\* scrapper.py:52-58: one row of the table as scrape_movies appends it.
Movie(n, p, a, t) ==
    [name |-> n, platform |-> p, available_on |-> a, type |-> t,
     imdb_rating |-> "None"]

\* The rows the source table can hold: two with one (name, platform) and
\* different dates and types, one without a year, one with a full date.
HarvestRows ==
    { Movie("Akhanda", "Aha", <<"Coming", "Soon">>, "Movie"),
      Movie("Akhanda", "Aha", <<"20", "Jun">>, "Series"),
      Movie("Custody", "Prime", <<"01", "Jan", "2026">>, "Movie") }

\* movies_list of scrape_movies: the rows in table order, repeats included.
Harvests == UNION { [1..n -> HarvestRows] : n \in 0..MaxRows }

SameIdentity(a, b) == a.name = b.name /\ a.platform = b.platform

\* ------------------------------------------------------------------ dates
\* str.lower() on one word
Lower(w) ==
    CASE w = "Coming" -> "coming"
      [] w = "Soon" -> "soon"
      [] w = "Jan" -> "jan"
      [] w = "Jun" -> "jun"
      [] OTHER -> w

\* 'soon' in word
HasSoon(w) == w = "soon"

\* %d, %b and %Y of strptime on one (lowered) word; 0 when it does not match
DayOf(w) == CASE w = "01" -> 1 [] w = "20" -> 20 [] OTHER -> 0
MonthOf(w) == CASE w = "jan" -> 1 [] w = "jun" -> 6 [] OTHER -> 0
YearOf(w) == CASE w = "2025" -> 2025 [] w = "2026" -> 2026 [] OTHER -> 0

\* datetime.now().year on day d: the model starts on 6 December 2025.
CurrentYear(d) == 2025 + (339 + d) \div 365

\* A datetime as a number that grows with it (months of 31 days).
Ordinal(y, m, d) == (y * 12 + m) * 31 + d

DateMin == [kind |-> "min", at |-> 0]
DateMax == [kind |-> "max", at |-> 0]
DateAt(y, m, d) == [kind |-> "date", at |-> Ordinal(y, m, d)]

\* scrapper.py:65-91
parse_date(date_str, year) ==
    LET s == [i \in DOMAIN date_str |-> Lower(date_str[i])]
    IN  IF date_str = <<>> THEN DateMax
        ELSE IF \E i \in DOMAIN s : HasSoon(s[i]) THEN DateMin
        ELSE IF Len(s) = 3 /\ DayOf(s[1]) > 0 /\ MonthOf(s[2]) > 0 /\ YearOf(s[3]) > 0
             THEN DateAt(YearOf(s[3]), MonthOf(s[2]), DayOf(s[1]))
        ELSE IF Len(s) = 2 /\ MonthOf(s[1]) > 0 /\ YearOf(s[2]) > 0
             THEN DateAt(YearOf(s[2]), MonthOf(s[1]), 1)
        ELSE IF Len(s) = 2 /\ DayOf(s[1]) > 0 /\ MonthOf(s[2]) > 0
             THEN DateAt(year, MonthOf(s[2]), DayOf(s[1]))
        ELSE DateMax

\* Code point order of the names.
NameRank(n) ==
    CASE n = "Akhanda" -> 1
      [] n = "Bro" -> 2
      [] n = "Custody" -> 3
      [] OTHER -> 0

\* sort_key without the negation of the timestamp: oldest date first
sort_keyOldestFirst(movie, year) ==
    LET parsed_date == parse_date(movie.available_on, year)
    IN  IF parsed_date = DateMin THEN <<0, 0, NameRank(movie.name)>>
        ELSE IF parsed_date = DateMax THEN <<2, 0, NameRank(movie.name)>>
        ELSE <<1, parsed_date.at, NameRank(movie.name)>>

\* scrapper.py:124-134: (tier, secondary, name); the secondary of tiers 0 and
\* 2 is one fixed value, that of tier 1 the negated timestamp.
sort_key(movie, year) ==
    LET parsed_date == parse_date(movie.available_on, year)
    IN  IF parsed_date = DateMin THEN <<0, 0, NameRank(movie.name)>>
        ELSE IF parsed_date = DateMax THEN <<2, 0, NameRank(movie.name)>>
        ELSE <<1, 0 - parsed_date.at, NameRank(movie.name)>>

\* tuple comparison k1 < k2
KeyLess(k1, k2) ==
    \/ k1[1] < k2[1]
    \/ k1[1] = k2[1] /\ k1[2] < k2[2]
    \/ k1[1] = k2[1] /\ k1[2] = k2[2] /\ k1[3] < k2[3]

\* x put into the sorted s behind every element that is not greater than it
RECURSIVE InsertSorted(_, _, _)
InsertSorted(x, s, year) ==
    IF s = <<>> THEN <<x>>
    ELSE IF KeyLess(sort_key(x, year), sort_key(Head(s), year))
         THEN <<x>> \o s
         ELSE <<Head(s)>> \o InsertSorted(x, Tail(s), year)

\* scrapper.py:136: list.sort(key=sort_key), a stable sort
RECURSIVE SortMovies(_, _)
SortMovies(movies, year) ==
    IF movies = <<>> THEN <<>>
    ELSE InsertSorted(movies[Len(movies)],
                      SortMovies(SubSeq(movies, 1, Len(movies) - 1), year), year)

\* ------------------------------------------------------------------ merge
\* IsNew with the name compared to the platform
IsNewTypo(movie, existing_movies) ==
    ~ \E i \in DOMAIN existing_movies :
          /\ existing_movies[i].name = movie.platform
          /\ existing_movies[i].platform = movie.platform

\* scrapper.py:116-117
IsNew(movie, existing_movies) ==
    ~ \E i \in DOMAIN existing_movies : SameIdentity(existing_movies[i], movie)

\* scrapper.py:111-120: the rows appended to the copy of existing_movies
Appended(existing_movies, movies) ==
    SelectSeq(movies, LAMBDA m : IsNew(m, existing_movies))

\* UpdatedMovies with an existing record replaced by the last incoming row of
\* its (name, platform)
UpdatedMoviesRefreshing(existing_movies, movies, year) ==
    LET Refreshed(e) ==
            LET same == { j \in DOMAIN movies : SameIdentity(movies[j], e) }
            IN  IF same = {} THEN e
                ELSE movies[CHOOSE j \in same : \A k \in same : k <= j]
    IN  SortMovies([i \in DOMAIN existing_movies |-> Refreshed(existing_movies[i])]
                       \o Appended(existing_movies, movies), year)

\* scrapper.py:111-136: updated_movies after the sort
UpdatedMovies(existing_movies, movies, year) ==
    SortMovies(existing_movies \o Appended(existing_movies, movies), year)

\* ------------------------------------------------------------------ files
NoFile == [exists |-> FALSE, json |-> FALSE, recs |-> <<>>, mtime |-> 0]
\* a file opened with 'w' and not yet written: no JSON document
Truncated(day) == [exists |-> TRUE, json |-> FALSE, recs |-> <<>>, mtime |-> day]
Written(recs, day) == [exists |-> TRUE, json |-> TRUE, recs |-> recs, mtime |-> day]

\* LoadExisting that never reads the file
LoadExistingNothing(f) == <<>>

\* scrapper.py:101-108: existing_movies
LoadExisting(f) == IF f.exists /\ f.json THEN f.recs ELSE <<>>

RequiredFields == {"name", "platform", "available_on", "type"}

\* auto_update.py:114-143
validate_data_file(f) ==
    /\ f.exists
    /\ f.json
    /\ Len(f.recs) # 0
    /\ \A field \in RequiredFields : field \in DOMAIN f.recs[1]

\* get_latest_backup without reverse=True: the backup with the least name
get_latest_backupOldest(bs) == { b \in bs : \A o \in bs : b.stamp <= o.stamp }

\* auto_update.py:65-79: the backup with the greatest name, among
\* movies_backup_*.json; {} for None
get_latest_backup(bs) == { b \in bs : \A o \in bs : o.stamp <= b.stamp }

\* cleanup_old_backups that never deletes the most recent backup
cleanup_old_backupsKeepsLatest(bs, day) ==
    { b \in bs : ~ (b.mtime < day - BACKUP_RETENTION_DAYS) } \cup get_latest_backup(bs)

\* auto_update.py:43-62
cleanup_old_backups(bs, day) ==
    { b \in bs : ~ (b.mtime < day - BACKUP_RETENTION_DAYS) }

\* auto_update.py:50-62: the sets of backups that the pass can have deleted
\* when a call on the file failing raises: old backups that os.listdir gave
\* before it, in whatever order the directory has.  The except clause is
\* around the whole loop, so the pass ends there.
DeletedBefore(bs, day, failing) ==
    SUBSET { b \in bs \ {failing} : b.mtime < day - BACKUP_RETENTION_DAYS }

\* auto_update.py:219-229
CleanupLogs(ls, day) == { l \in ls : ~ (l < day - BACKUP_RETENTION_DAYS) }

\* ------------------------------------------------------------------ state
NoCycle ==
    [pre |-> NoFile,        \* movies.json when the cycle started
     startStamp |-> 0,      \* the last stamp given before the scraper ran
     safety |-> 0,          \* stamp of safety_backup, 0 for None
     year |-> 0,            \* datetime.now().year of the cycle
     err |-> "none",        \* how the scraper failed
     fetched |-> FALSE,     \* the fetch gave the table's rows
     rows |-> <<>>,         \* movies_list
     loaded |-> <<>>,       \* existing_movies
     newCount |-> 0,        \* new_count
     ok |-> FALSE,          \* run_scraper()
     valid |-> FALSE,       \* validate_data_file()
     restored |-> FALSE,    \* restore_from_backup() copied a backup
     anyBackup |-> FALSE,   \* a backup of either lineage was there at step 4
     copyFailed |-> FALSE,  \* shutil.copy2 of the restore raised
     pruneFailed |-> 0,     \* stamp of the backup cleanup_old_backups raised on
     outcome |-> "none",
     exit |-> 0]

NoResponse == [status |-> 0, error |-> ""]

Init ==
    /\ now = 0
    /\ stamp = 0
    /\ dataFile = NoFile
    /\ backups = {}
    /\ safeties = {}
    /\ logs = {}
    /\ pc = "idle"
    /\ pending = <<>>
    /\ cyc = NoCycle
    /\ prev = [rows |-> <<>>, clean |-> FALSE, year |-> 0, pruneFailed |-> FALSE,
               copyFailed |-> FALSE, restored |-> FALSE]
    /\ cycles = 0
    /\ faults = 0
    /\ resp = NoResponse

\* a backup file: its name's stamp, its mtime and its content
BackupFile(st, f) == [stamp |-> st, mtime |-> f.mtime, json |-> f.json, recs |-> f.recs]

\* ------------------------------------------------------------------ orchestrator
\* The job is started d days after its last start.  auto_update.py:17-28
\* (today's log is opened), 180-190: create_safety_backup (99-111,
\* shutil.copy2 keeps the mtime), then run_scraper starts the scraper.
StartCycle(d) ==
    /\ pc = "idle"
    /\ cycles < MaxCycles
    /\ now' = now + d
    /\ cycles' = cycles + 1
    /\ logs' = logs \cup {now'}
    /\ IF dataFile.exists
       THEN /\ stamp' = stamp + 1
            /\ safeties' = safeties \cup {BackupFile(stamp', dataFile)}
       ELSE UNCHANGED <<stamp, safeties>>
    /\ cyc' = [NoCycle EXCEPT !.pre = dataFile,
                              !.startStamp = stamp',
                              !.safety = IF dataFile.exists THEN stamp' ELSE 0,
                              !.year = CurrentYear(now'),
                              !.outcome = "running"]
    /\ prev' = [rows |-> cyc.rows,
                clean |-> cyc.outcome = "success" /\ cyc.err = "none" /\ cyc.fetched,
                year |-> cyc.year,
                pruneFailed |-> prev.pruneFailed \/ cyc.pruneFailed # 0,
                copyFailed |-> prev.copyFailed \/ cyc.copyFailed,
                restored |-> cyc.restored]
    /\ pc' = "fetch"
    /\ resp' = NoResponse
    /\ UNCHANGED <<dataFile, backups, pending, faults>>

\* ------------------------------------------------------------------ scraper
\* scrapper.py:23: requests.get raises; the scraper dies with a traceback and
\* auto_update.py:166-168 sees a return code that is not 0.
FetchTransportError ==
    /\ pc = "fetch"
    /\ cyc' = [cyc EXCEPT !.err = "transport", !.ok = FALSE]
    /\ pc' = "returned"
    /\ resp' = NoResponse
    /\ UNCHANGED <<now, stamp, dataFile, backups, safeties, logs, pending, prev, cycles, faults>>

\* scrapper.py:25-27: the response is not 200; scrape_movies prints and
\* returns, the scraper sleeps and exits with 0 (auto_update.py:170-171).
FetchBadStatus ==
    /\ pc = "fetch"
    /\ cyc' = [cyc EXCEPT !.err = "status", !.ok = TRUE]
    /\ pc' = "returned"
    /\ resp' = NoResponse
    /\ UNCHANGED <<now, stamp, dataFile, backups, safeties, logs, pending, prev, cycles, faults>>

\* scrapper.py:34-38: the table is not in the page; as for a bad status.
FetchNoTable ==
    /\ pc = "fetch"
    /\ cyc' = [cyc EXCEPT !.err = "structure", !.ok = TRUE]
    /\ pc' = "returned"
    /\ resp' = NoResponse
    /\ UNCHANGED <<now, stamp, dataFile, backups, safeties, logs, pending, prev, cycles, faults>>

\* scrapper.py:40-63, 93-139: the rows are read, save_to_file loads the
\* existing movies, merges, sorts and opens movies.json for writing, which
\* truncates it.
FetchRows(movies) ==
    /\ pc = "fetch"
    /\ LET existing_movies == LoadExisting(dataFile)
       IN  /\ pending' = UpdatedMovies(existing_movies, movies, CurrentYear(now))
           /\ cyc' = [cyc EXCEPT !.fetched = TRUE,
                                 !.rows = movies,
                                 !.loaded = existing_movies,
                                 !.newCount = Len(Appended(existing_movies, movies))]
    /\ dataFile' = Truncated(now)
    /\ pc' = "dump"
    /\ resp' = NoResponse
    /\ UNCHANGED <<now, stamp, backups, safeties, logs, prev, cycles, faults>>

\* scrapper.py:140: json.dump and the close of the file
DumpData ==
    /\ pc = "dump"
    /\ dataFile' = Written(pending, now)
    /\ pc' = "backup"
    /\ resp' = NoResponse
    /\ UNCHANGED <<now, stamp, backups, safeties, logs, pending, cyc, prev, cycles, faults>>

\* scrapper.py:139-140: the write raises (disk full, I/O error); the scraper
\* dies with a traceback and leaves what open(..., 'w') made of the file.
DumpFails ==
    /\ pc = "dump"
    /\ faults < MaxFaults
    /\ faults' = faults + 1
    /\ cyc' = [cyc EXCEPT !.err = "persist", !.ok = FALSE]
    /\ pc' = "returned"
    /\ resp' = NoResponse
    /\ pending' = <<>>
    /\ UNCHANGED <<now, stamp, dataFile, backups, safeties, logs, prev, cycles>>

\* WriteBackup that dumps existing_movies instead of updated_movies
WriteBackupOfLoaded ==
    /\ pc = "backup"
    /\ stamp' = stamp + 1
    /\ backups' = backups \cup {BackupFile(stamp', Written(cyc.loaded, now))}
    /\ pc' = "sleep"
    /\ resp' = NoResponse
    /\ UNCHANGED <<now, dataFile, safeties, logs, pending, cyc, prev, cycles, faults>>

\* scrapper.py:145-149: the archival backup
WriteBackup ==
    /\ pc = "backup"
    /\ stamp' = stamp + 1
    /\ backups' = backups \cup {BackupFile(stamp', Written(pending, now))}
    /\ pc' = "sleep"
    /\ resp' = NoResponse
    /\ UNCHANGED <<now, dataFile, safeties, logs, pending, cyc, prev, cycles, faults>>

\* scrapper.py:153, auto_update.py:166-171: the sleep ends, return code 0
ScraperExits ==
    /\ pc = "sleep"
    /\ cyc' = [cyc EXCEPT !.ok = TRUE]
    /\ pc' = "returned"
    /\ resp' = NoResponse
    /\ pending' = <<>>
    /\ UNCHANGED <<now, stamp, dataFile, backups, safeties, logs, prev, cycles, faults>>

\* auto_update.py:157, 172-174: the five minutes are over while the fetch
\* hangs, and the scraper is killed.
FetchTimesOut ==
    /\ pc = "fetch"
    /\ cyc' = [cyc EXCEPT !.err = "timeout", !.ok = FALSE]
    /\ pc' = "returned"
    /\ resp' = NoResponse
    /\ UNCHANGED <<now, stamp, dataFile, backups, safeties, logs, pending, prev, cycles, faults>>

\* auto_update.py:157, 172-174: the five minutes are over after a slow fetch,
\* and the scraper is killed where it is: in the write of movies.json, before
\* the backup, or in its sleep.
ScraperKilled ==
    /\ pc \in {"dump", "backup", "sleep"}
    /\ faults < MaxFaults
    /\ faults' = faults + 1
    /\ cyc' = [cyc EXCEPT !.err = "killed", !.ok = FALSE]
    /\ pc' = "returned"
    /\ resp' = NoResponse
    /\ pending' = <<>>
    /\ UNCHANGED <<now, stamp, dataFile, backups, safeties, logs, prev, cycles>>

\* ------------------------------------------------------------------ end of cycle
\* auto_update.py:193-198: scraper_success after the validation
ScraperSuccess == cyc.ok /\ validate_data_file(dataFile)

\* FinishSuccess that leaves the safety backup of the cycle in the directory
FinishSuccessKeepsSafety ==
    /\ pc = "returned"
    /\ ScraperSuccess
    /\ backups' = cleanup_old_backups(backups, now)
    /\ logs' = CleanupLogs(logs, now)
    /\ cyc' = [cyc EXCEPT !.valid = TRUE,
                          !.anyBackup = (backups \cup safeties) # {},
                          !.outcome = "success",
                          !.exit = 0]
    /\ pc' = "idle"
    /\ resp' = NoResponse
    /\ UNCHANGED <<now, stamp, dataFile, safeties, pending, prev, cycles, faults>>

\* auto_update.py:208-233: the update succeeded; the safety backup goes, the
\* old backups and logs are cleaned, the process ends (exit code 0).
FinishSuccess ==
    /\ pc = "returned"
    /\ ScraperSuccess
    /\ safeties' = { s \in safeties : s.stamp # cyc.safety }
    /\ backups' = cleanup_old_backups(backups, now)
    /\ logs' = CleanupLogs(logs, now)
    /\ cyc' = [cyc EXCEPT !.valid = TRUE,
                          !.anyBackup = (backups \cup safeties) # {},
                          !.outcome = "success",
                          !.exit = 0]
    /\ pc' = "idle"
    /\ resp' = NoResponse
    /\ UNCHANGED <<now, stamp, dataFile, pending, prev, cycles, faults>>

\* auto_update.py:208-233 with 50-62: as FinishSuccess, but os.path.getmtime
\* or os.remove raises on one backup file; the error is logged, the logs are
\* cleaned, exit code 0.
FinishSuccessPruneFails ==
    /\ pc = "returned"
    /\ ScraperSuccess
    /\ faults < MaxFaults
    /\ faults' = faults + 1
    /\ safeties' = { s \in safeties : s.stamp # cyc.safety }
    /\ \E failing \in backups : \E done \in DeletedBefore(backups, now, failing) :
          /\ backups' = backups \ done
          /\ cyc' = [cyc EXCEPT !.valid = TRUE,
                                !.anyBackup = TRUE,
                                !.pruneFailed = failing.stamp,
                                !.outcome = "success",
                                !.exit = 0]
    /\ logs' = CleanupLogs(logs, now)
    /\ pc' = "idle"
    /\ resp' = NoResponse
    /\ UNCHANGED <<now, stamp, dataFile, pending, prev, cycles>>

\* auto_update.py:201-204, 82-93, 216-233 with 50-62: as FinishRestored, but
\* the pass over the backups raises on one file.
FinishRestoredPruneFails ==
    /\ pc = "returned"
    /\ ~ ScraperSuccess
    /\ faults < MaxFaults
    /\ faults' = faults + 1
    /\ \E b \in get_latest_backup(backups) :
          dataFile' = [exists |-> TRUE, json |-> b.json, recs |-> b.recs,
                       mtime |-> b.mtime]
    /\ \E failing \in backups : \E done \in DeletedBefore(backups, now, failing) :
          /\ backups' = backups \ done
          /\ cyc' = [cyc EXCEPT !.valid = cyc.ok /\ validate_data_file(dataFile),
                                !.anyBackup = TRUE,
                                !.restored = TRUE,
                                !.pruneFailed = failing.stamp,
                                !.outcome = "recovered",
                                !.exit = 0]
    /\ logs' = CleanupLogs(logs, now)
    /\ pc' = "idle"
    /\ resp' = NoResponse
    /\ UNCHANGED <<now, stamp, safeties, pending, prev, cycles>>

\* auto_update.py:201-204, 82-93, 216-233: the latest backup is copied over
\* movies.json (shutil.copy2 keeps its mtime), then the cleanups, exit code 0.
FinishRestored ==
    /\ pc = "returned"
    /\ ~ ScraperSuccess
    /\ \E b \in get_latest_backup(backups) :
          dataFile' = [exists |-> TRUE, json |-> b.json, recs |-> b.recs,
                       mtime |-> b.mtime]
    /\ backups' = cleanup_old_backups(backups, now)
    /\ logs' = CleanupLogs(logs, now)
    /\ cyc' = [cyc EXCEPT !.valid = cyc.ok /\ validate_data_file(dataFile),
                          !.anyBackup = TRUE,
                          !.restored = TRUE,
                          !.outcome = "recovered",
                          !.exit = 0]
    /\ pc' = "idle"
    /\ resp' = NoResponse
    /\ UNCHANGED <<now, stamp, safeties, pending, prev, cycles, faults>>

\* FinishNoBackup without the sys.exit(1): the cycle goes on to its cleanups
FinishNoBackupContinues ==
    /\ pc = "returned"
    /\ ~ ScraperSuccess
    /\ get_latest_backup(backups) = {}
    /\ logs' = CleanupLogs(logs, now)
    /\ cyc' = [cyc EXCEPT !.valid = cyc.ok /\ validate_data_file(dataFile),
                          !.anyBackup = (backups \cup safeties) # {},
                          !.outcome = "recovered",
                          !.exit = 0]
    /\ pc' = "idle"
    /\ resp' = NoResponse
    /\ UNCHANGED <<now, stamp, dataFile, backups, safeties, pending, prev, cycles, faults>>

\* FinishNoBackup that cleans the old logs before its sys.exit(1)
FinishNoBackupPrunes ==
    /\ pc = "returned"
    /\ ~ ScraperSuccess
    /\ get_latest_backup(backups) = {}
    /\ logs' = CleanupLogs(logs, now)
    /\ cyc' = [cyc EXCEPT !.valid = cyc.ok /\ validate_data_file(dataFile),
                          !.anyBackup = (backups \cup safeties) # {},
                          !.outcome = "irrecoverable",
                          !.exit = 1]
    /\ pc' = "idle"
    /\ resp' = NoResponse
    /\ UNCHANGED <<now, stamp, dataFile, backups, safeties, pending, prev, cycles, faults>>

\* auto_update.py:86-88, 205-207: no movies_backup_*.json; sys.exit(1)
FinishNoBackup ==
    /\ pc = "returned"
    /\ ~ ScraperSuccess
    /\ get_latest_backup(backups) = {}
    /\ cyc' = [cyc EXCEPT !.valid = cyc.ok /\ validate_data_file(dataFile),
                          !.anyBackup = (backups \cup safeties) # {},
                          !.outcome = "irrecoverable",
                          !.exit = 1]
    /\ pc' = "idle"
    /\ resp' = NoResponse
    /\ UNCHANGED <<now, stamp, dataFile, backups, safeties, logs, pending, prev, cycles, faults>>

\* auto_update.py:91, 94-96, 205-207: shutil.copy2 raises, before it opened
\* movies.json or after (partial); sys.exit(1)
FinishRestoreFails(partial) ==
    /\ pc = "returned"
    /\ ~ ScraperSuccess
    /\ get_latest_backup(backups) # {}
    /\ faults < MaxFaults
    /\ faults' = faults + 1
    /\ dataFile' = IF partial THEN Truncated(now) ELSE dataFile
    /\ cyc' = [cyc EXCEPT !.valid = cyc.ok /\ validate_data_file(dataFile),
                          !.anyBackup = TRUE,
                          !.copyFailed = TRUE,
                          !.outcome = "irrecoverable",
                          !.exit = 1]
    /\ pc' = "idle"
    /\ resp' = NoResponse
    /\ UNCHANGED <<now, stamp, backups, safeties, logs, pending, prev, cycles>>

\* ------------------------------------------------------------------ serving layer
Response(status, error) == [status |-> status, error |-> error]

\* app.py:56-60, 62-64: movies.json is there and is read
ReadMovies ==
    /\ dataFile.exists
    /\ resp' = IF dataFile.json
               THEN Response(200, "")
               ELSE Response(500, "Failed to load movie data")
    /\ UNCHANGED <<now, stamp, dataFile, backups, safeties, logs, pc, pending, cyc,
                   prev, cycles, faults>>

\* app.py:28-42, 49-50: movies.json is not there, the scraper is run and
\* fails: the fetch raises
GenerateFetchFails ==
    /\ ~ dataFile.exists
    /\ resp' = Response(500, "Could not generate movie data")
    /\ UNCHANGED <<now, stamp, dataFile, backups, safeties, logs, pc, pending, cyc,
                   prev, cycles, faults>>

\* app.py:28-37, 53-54: the scraper is run and returns without a file (bad
\* status, no table)
GenerateNothing ==
    /\ ~ dataFile.exists
    /\ resp' = Response(404, "Movie data not found")
    /\ UNCHANGED <<now, stamp, dataFile, backups, safeties, logs, pc, pending, cyc,
                   prev, cycles, faults>>

\* app.py:28-37, 56-60 with scrapper.py:93-149: the scraper is run and
\* writes movies.json and a backup, which are read
GenerateMovies(movies) ==
    /\ ~ dataFile.exists
    /\ LET updated_movies == UpdatedMovies(<<>>, movies, CurrentYear(now))
       IN  /\ dataFile' = Written(updated_movies, now)
           /\ stamp' = stamp + 1
           /\ backups' = backups \cup {BackupFile(stamp', dataFile')}
           /\ resp' = Response(200, "")
    /\ UNCHANGED <<now, safeties, logs, pc, pending, cyc, prev, cycles, faults>>

\* app.py:38-41, 49-50 with scrapper.py:139-140: the scraper's write raises
GenerateWriteFails ==
    /\ ~ dataFile.exists
    /\ faults < MaxFaults
    /\ faults' = faults + 1
    /\ dataFile' = Truncated(now)
    /\ resp' = Response(500, "Could not generate movie data")
    /\ UNCHANGED <<now, stamp, backups, safeties, logs, pc, pending, cyc, prev, cycles>>

\* app.py:45-64
get_movies ==
    \/ ReadMovies
    \/ GenerateFetchFails
    \/ GenerateNothing
    \/ \E movies \in Harvests : GenerateMovies(movies)
    \/ GenerateWriteFails

\* ------------------------------------------------------------------ specification
\* The steps of the update job but its start: the scraper that main() of
\* auto_update.py runs, and the end of main().  A step of the job sends no
\* response (resp).
UpdateStep ==
    \/ FetchTransportError
    \/ FetchBadStatus
    \/ FetchNoTable
    \/ FetchTimesOut
    \/ \E movies \in Harvests : FetchRows(movies)
    \/ DumpData
    \/ DumpFails
    \/ WriteBackup
    \/ ScraperExits
    \/ ScraperKilled
    \/ FinishSuccess
    \/ FinishRestored
    \/ FinishNoBackup
    \/ \E partial \in BOOLEAN : FinishRestoreFails(partial)
    \/ FinishSuccessPruneFails
    \/ FinishRestoredPruneFails

\* The update job alone, the only writer of the data directory.
Next ==
    \/ \E d \in DaySteps : StartCycle(d)
    \/ UpdateStep

Spec == Init /\ [][Next]_vars

\* The update job with the serving layer beside it.
ServedNext ==
    \/ \E d \in DaySteps : cycles < MaxServedCycles /\ StartCycle(d)
    \/ UpdateStep
    \/ get_movies

SpecServed == Init /\ [][ServedNext]_vars

\* ------------------------------------------------------------------ the sort alone
\* The texts of the release column: soon, a day and month without year, a
\* full date, a month and year, no text, and a text that is no date.
SortDates ==
    { <<"Coming", "Soon">>, <<"20", "Jun">>, <<"01", "Jan", "2026">>,
      <<"Jun", "2026">>, <<>>, <<"TBA">> }

SortRows == { Movie(n, "Aha", a, "Movie") : n \in {"Akhanda", "Custody"}, a \in SortDates }

\* updated_movies before the sort, in December 2025 or in January 2026
SortInit ==
    /\ now \in {0, 31}
    /\ pending \in UNION { [1..n -> SortRows] : n \in 0..MaxSortLen }
    /\ pc = "sort"
    /\ stamp = 0
    /\ dataFile = NoFile
    /\ backups = {}
    /\ safeties = {}
    /\ logs = {}
    /\ cyc = NoCycle
    /\ prev = [rows |-> <<>>, clean |-> FALSE, year |-> 0, pruneFailed |-> FALSE,
               copyFailed |-> FALSE, restored |-> FALSE]
    /\ cycles = 0
    /\ faults = 0
    /\ resp = NoResponse

\* scrapper.py:136-140: the list is sorted and written
SortDataset ==
    /\ pc = "sort"
    /\ dataFile' = Written(SortMovies(pending, CurrentYear(now)), now)
    /\ pc' = "sorted"
    /\ UNCHANGED <<now, stamp, backups, safeties, logs, pending, cyc, prev, cycles,
                   faults, resp>>

SortNext == SortDataset

SpecSort == SortInit /\ [][SortNext]_vars

\* ------------------------------------------------------------------ the validation alone
\* a record without one of its fields
Without(r, field) == [f \in DOMAIN r \ {field} |-> r[f]]

\* The elements a movies.json can hold: two rows as the scraper writes them,
\* and a row without one of the required fields.
ValidateRecords ==
    { Movie("Akhanda", "Aha", <<"20", "Jun">>, "Movie"),
      Movie("Custody", "Prime", <<"01", "Jan", "2026">>, "Movie") }
    \cup { Without(Movie("Akhanda", "Aha", <<"20", "Jun">>, "Movie"), field) :
               field \in RequiredFields }

\* movies.json when the scraper has returned 0: not there, no JSON document,
\* or a list
ValidateFiles ==
    { NoFile, Truncated(0) }
    \cup { Written(recs, 0) : recs \in UNION { [1..n -> ValidateRecords] : n \in 0..MaxFileLen } }

ValidateInit ==
    /\ dataFile \in ValidateFiles
    /\ pc = "validate"
    /\ cyc = [NoCycle EXCEPT !.ok = TRUE, !.outcome = "running"]
    /\ now = 0
    /\ stamp = 0
    /\ backups = {}
    /\ safeties = {}
    /\ logs = {}
    /\ pending = <<>>
    /\ prev = [rows |-> <<>>, clean |-> FALSE, year |-> 0, pruneFailed |-> FALSE,
               copyFailed |-> FALSE, restored |-> FALSE]
    /\ cycles = 0
    /\ faults = 0
    /\ resp = NoResponse

\* auto_update.py:193-198: step 3 of main()
ValidateDataFile ==
    /\ pc = "validate"
    /\ cyc' = [cyc EXCEPT !.valid = validate_data_file(dataFile),
                          !.ok = validate_data_file(dataFile)]
    /\ pc' = "validated"
    /\ UNCHANGED <<now, stamp, dataFile, backups, safeties, logs, pending, prev,
                   cycles, faults, resp>>

ValidateNext == ValidateDataFile

SpecValidate == ValidateInit /\ [][ValidateNext]_vars

\* ------------------------------------------------------------------ properties
\* the content of a file, without its mtime
Content(f) == [exists |-> f.exists, json |-> f.json, recs |-> f.recs]

\* a cycle has run to its end: main() has returned or exited
CycleEnded == pc = "idle" /\ cycles > 0

\* the extraction failed: the fetch raised, was answered with another status
\* than 200, hung until the timeout, or the page had no table
ExtractionFailed == cyc.err \in {"transport", "status", "structure", "timeout"}

\* C1 (as claimed): a cycle that starts with a dataset file and whose harvest
\* fails with a transport error ends with the dataset file as it was (equal
\* to the safety snapshot of the cycle), as a recovered failure, with exit
\* code 0, whatever archival backups exist.  Stated for a valid dataset and a
\* run without any I/O fault or kill.
C1_TransportErrorIsRecovered ==
    (CycleEnded /\ cyc.err = "transport" /\ validate_data_file(cyc.pre) /\ faults = 0)
        => /\ Content(dataFile) = Content(cyc.pre)
           /\ \E s \in safeties : s.stamp = cyc.safety /\ s.recs = dataFile.recs
           /\ cyc.outcome = "recovered"
           /\ cyc.exit = 0

\* C2 (as claimed): a cycle whose extraction failed, whatever the kind of the
\* failure, ends failed (restored or not) and never takes the success branch
\* (no "update successful", the safety snapshot stays).  Stated for runs
\* without any I/O fault or kill.
C2_ExtractionFailureNeverSucceeds ==
    (CycleEnded /\ ExtractionFailed /\ faults = 0)
        => /\ cyc.outcome \in {"recovered", "irrecoverable"}
           /\ (cyc.safety # 0 => \E s \in safeties : s.stamp = cyc.safety)

\* C3 (as claimed): no two records of the dataset file have the same
\* (name, platform), after any sequence of cycles from an absent dataset.
C3_NoTwoRecordsShareIdentity ==
    dataFile.json =>
        \A i, j \in DOMAIN dataFile.recs :
            SameIdentity(dataFile.recs[i], dataFile.recs[j]) => i = j

C5_NonZeroOnlyWhenIrrecoverable ==
    (CycleEnded /\ (faults = 0 \/ cyc.copyFailed))
        => (cyc.exit # 0 <=>
               /\ cyc.outcome # "success"
               /\ (~ cyc.anyBackup \/ cyc.copyFailed))

\* number of times r is in the sequence s
Count(r, s) == Cardinality({ i \in DOMAIN s : s[i] = r })

\* the records of s and of t are the same, each as many times
SameRecords(s, t) ==
    /\ Len(s) = Len(t)
    /\ \A i \in DOMAIN s : Count(s[i], s) = Count(s[i], t)

\* s is in the order of the ranking of the year
IsRanked(s, year) ==
    \A i, j \in DOMAIN s : i < j => ~ KeyLess(sort_key(s[j], year), sort_key(s[i], year))

\* the cycle fetched the rows, nothing failed, and it ended in success
CleanSuccess == cyc.fetched /\ cyc.err = "none" /\ cyc.outcome = "success"

\* the cycle started with a valid dataset and its harvest gave no row
EmptyHarvest ==
    /\ CycleEnded
    /\ cyc.fetched
    /\ cyc.err = "none"
    /\ cyc.rows = <<>>
    /\ validate_data_file(cyc.pre)

\* C6 (as claimed): with a dataset that is not empty and a harvest that
\* succeeds with no row, the validation fails, the restore runs, and the
\* dataset at the end is the dataset before the cycle.
C6_EmptyHarvestIsRestored ==
    EmptyHarvest
        => /\ ~ cyc.valid
           /\ cyc.restored
           /\ Content(dataFile) = Content(cyc.pre)

\* C6 (amended): with a valid dataset that is not empty and a harvest that
\* succeeds with no row, the validation passes (the merged result is the
\* existing dataset), no restore runs, the cycle ends in success with
\* new_count 0 and exit code 0, and the dataset at the end holds the records
\* it held before the cycle, in the order of the ranking.
C6_EmptyHarvestKeepsRecords ==
    EmptyHarvest
        => /\ cyc.valid
           /\ ~ cyc.restored
           /\ cyc.outcome = "success"
           /\ cyc.exit = 0
           /\ cyc.newCount = 0
           /\ dataFile.json
           /\ SameRecords(dataFile.recs, cyc.pre.recs)
           /\ IsRanked(dataFile.recs, cyc.year)

\* C6, witness: such a cycle over a dataset of two records has ended.
C6_Witness == EmptyHarvest /\ Len(cyc.pre.recs) >= 2 /\ cyc.outcome = "success"

\* the rows have pairwise distinct (name, platform)
DistinctIdentities(s) == \A i, j \in DOMAIN s : SameIdentity(s[i], s[j]) => i = j

\* the archival backups written since the cycle started
NewBackups == { b \in backups : b.stamp > cyc.startStamp }

\* the cycle started without a dataset, or with an empty one, and its harvest
\* gave rows with pairwise distinct (name, platform); nothing failed
FirstHarvest ==
    /\ CycleEnded
    /\ cyc.fetched
    /\ cyc.err = "none"
    /\ Len(cyc.rows) >= 1
    /\ DistinctIdentities(cyc.rows)
    /\ (~ cyc.pre.exists \/ (cyc.pre.json /\ cyc.pre.recs = <<>>))

\* C8: a cycle that starts with no dataset or an empty one and harvests n >= 1
\* rows with pairwise distinct (name, platform) ends with a dataset of exactly
\* these n records in the order of the ranking, exactly one new archival
\* backup, whose content is the dataset, no restore, and exit code 0.
C8_FirstHarvestIsStored ==
    FirstHarvest
        => /\ dataFile.exists /\ dataFile.json
           /\ SameRecords(dataFile.recs, cyc.rows)
           /\ IsRanked(dataFile.recs, cyc.year)
           /\ Cardinality(NewBackups) = 1
           /\ \A b \in NewBackups : b.json /\ b.recs = dataFile.recs
           /\ ~ cyc.restored
           /\ cyc.outcome = "success"
           /\ cyc.exit = 0

\* C8, witness: such a cycle with two rows over an empty dataset has ended.
C8_Witness ==
    /\ FirstHarvest
    /\ Len(cyc.rows) = 2
    /\ cyc.pre.exists
    /\ cyc.outcome = "success"

\* the cycle and the one before it were successful cycles with the same rows
SecondRun ==
    /\ CycleEnded
    /\ CleanSuccess
    /\ prev.clean
    /\ cyc.rows = prev.rows

\* C9 (as claimed): a successful cycle run a second time on the same rows
\* adds nothing (new_count 0) and leaves the dataset, content and order, as
\* the first run left it.
C9_SecondRunChangesNothing ==
    SecondRun
        => /\ cyc.newCount = 0
           /\ Content(dataFile) = Content(cyc.pre)

\* C9 (amended): a successful cycle run a second time on the same rows in
\* the same calendar year adds nothing (new_count 0) and leaves the dataset,
\* content and order, as the first run left it.
C9_SecondRunInYearChangesNothing ==
    (SecondRun /\ cyc.year = prev.year)
        => /\ cyc.newCount = 0
           /\ Content(dataFile) = Content(cyc.pre)

\* C9, witness: a second run in the same year, on two rows of one
\* (name, platform), has ended.
C9_Witness ==
    /\ SecondRun
    /\ cyc.year = prev.year
    /\ Len(cyc.rows) = 2
    /\ ~ DistinctIdentities(cyc.rows)

\* the (name, platform) of r is that of a record of s
IdentityIn(r, s) ==
    \E k \in DOMAIN s : s[k].name = r.name /\ s[k].platform = r.platform

\* C10: after the merge every record of the dataset of before the cycle is
\* still there, with all its fields, as many times as before, and every
\* other record of the result is a harvested row whose (name, platform) no
\* record of the dataset had.
C10_MergeKeepsExistingRecords ==
    pc = "dump"
        => /\ \A i \in DOMAIN cyc.pre.recs :
                  Count(cyc.pre.recs[i], pending) = Count(cyc.pre.recs[i], cyc.pre.recs)
           /\ \A i \in DOMAIN pending :
                  \/ Count(pending[i], cyc.pre.recs) > 0
                  \/ /\ Count(pending[i], cyc.rows) > 0
                     /\ ~ IdentityIn(pending[i], cyc.pre.recs)

\* C10, witness: a merge is done where a harvested row has the
\* (name, platform) of an existing record and another date.
C10_Witness ==
    /\ pc = "dump"
    /\ \E i \in DOMAIN cyc.pre.recs : \E j \in DOMAIN cyc.rows :
          /\ SameIdentity(cyc.pre.recs[i], cyc.rows[j])
          /\ cyc.pre.recs[i].available_on # cyc.rows[j].available_on

\* C7 (as claimed): a request to /movies beside an update cycle is answered
\* from the complete dataset of before the cycle or the complete new one,
\* never from a file that is partly written; and a write that fails leaves
\* the valid file of before the cycle as it was.
C7_ReaderNeverSeesPartialFile ==
    validate_data_file(cyc.pre)
        => /\ resp.error # "Failed to load movie data"
           /\ (pc = "returned" /\ cyc.err = "persist"
                  => Content(dataFile) = Content(cyc.pre))

\* the safety snapshot of the cycle is in the directory
SafetyKept ==
    \E s \in safeties :
        s.stamp = cyc.safety /\ s.json = cyc.pre.json /\ s.recs = cyc.pre.recs

\* C11: a cycle takes a safety snapshot at its start exactly when the dataset
\* file exists, and runs on without one when it does not; the snapshot is in
\* the directory while the cycle runs, is deleted when the cycle ends in
\* success, and is still there, with the content of the dataset before the
\* cycle, when the cycle ends in failure (recovered or irrecoverable).
C11_SafetySnapshotLifecycle ==
    /\ cycles > 0 => (cyc.safety = 0 <=> ~ cyc.pre.exists)
    /\ (pc # "idle" /\ cyc.safety # 0) => SafetyKept
    /\ (CycleEnded /\ cyc.outcome = "success")
           => ~ \E s \in safeties : s.stamp = cyc.safety
    /\ (CycleEnded /\ cyc.outcome \in {"recovered", "irrecoverable"} /\ cyc.safety # 0)
           => SafetyKept

\* C11, witness: a cycle that took a snapshot has ended in success and the
\* snapshot is gone, while the snapshot of an earlier, failed cycle is there.
C11_Witness ==
    /\ CycleEnded
    /\ cyc.outcome = "success"
    /\ cyc.safety # 0
    /\ \E s \in safeties : s.stamp < cyc.safety

\* the file or log of that day is older than the retention window
TooOld(day) == day < now - BACKUP_RETENTION_DAYS

\* the cycle has ended and its pruning ran to its end
Pruned ==
    /\ CycleEnded
    /\ cyc.outcome \in {"success", "recovered"}
    /\ cyc.pruneFailed = 0

\* C12 (as claimed): after the pruning of a cycle no backup file of either
\* lineage, archival or safety, is older than the retention window.
C12_NoOldBackupOfEitherLineage ==
    Pruned => \A b \in backups \cup safeties : ~ TooOld(b.mtime)

\* C13: the end of main() prunes the backups and the logs when the cycle
\* ends in success or in a recovered failure (every log older than the
\* window goes and, unless the pass over the backups raised, every archival
\* backup older than the window; the others stay), and deletes no file at
\* all when the cycle ends in irrecoverable failure.
C13_PruningUnlessIrrecoverable ==
    [][(pc = "returned" /\ pc' = "idle") =>
          IF cyc'.outcome = "irrecoverable"
          THEN UNCHANGED <<backups, safeties, logs>>
          ELSE /\ logs' = { l \in logs : ~ TooOld(l) }
               /\ cyc'.pruneFailed = 0
                      => backups' = { b \in backups : ~ TooOld(b.mtime) }]_vars

\* C13, witness: a cycle has ended in irrecoverable failure and a log older
\* than the window is still there.
C13_Witness ==
    /\ CycleEnded
    /\ cyc.outcome = "irrecoverable"
    /\ \E l \in logs : TooOld(l)

\* the text of the release column holds 'soon', in any case
Soon(r) == \E k \in DOMAIN r.available_on : Lower(r.available_on[k]) = "soon"

\* the text of the release column is a date, and the date
Dated(r, year) == ~ Soon(r) /\ parse_date(r.available_on, year).kind = "date"
DateOf(r, year) == parse_date(r.available_on, year).at

\* the text is empty or no date
Undated(r, year) == ~ Soon(r) /\ ~ Dated(r, year)

\* C14: the sorted list holds the records of the list it was given, with every
\* 'soon' record before every other, the dated records newest first, every
\* record with an empty or unparseable date behind every other, and records
\* of one tier and one date in ascending order of their names.
C14_SortedByTierDateName ==
    pc = "sorted" =>
        LET s == dataFile.recs
            y == CurrentYear(now)
        IN  /\ SameRecords(s, pending)
            /\ \A i, j \in DOMAIN s : i < j =>
                   /\ Soon(s[j]) => Soon(s[i])
                   /\ Undated(s[i], y) => Undated(s[j], y)
                   /\ (Dated(s[i], y) /\ Dated(s[j], y)) => DateOf(s[i], y) >= DateOf(s[j], y)
                   /\ \/ Soon(s[i]) /\ Soon(s[j])
                      \/ Undated(s[i], y) /\ Undated(s[j], y)
                      \/ /\ Dated(s[i], y) /\ Dated(s[j], y)
                         /\ DateOf(s[i], y) = DateOf(s[j], y)
                      => NameRank(s[i].name) <= NameRank(s[j].name)

\* C14, witness: a list of an undated, a dated and a 'soon' record, in that
\* order, has been sorted.
C14_Witness ==
    /\ pc = "sorted"
    /\ Len(pending) = 3
    /\ Undated(pending[1], CurrentYear(now))
    /\ Dated(pending[2], CurrentYear(now))
    /\ Soon(pending[3])

\* C15 (as claimed): a step in which the serving layer answers a request,
\* with or without a dataset file, leaves the dataset file and the backup
\* files of both lineages as they are.
C15_ServingLayerWritesNothing ==
    [][resp' # NoResponse => UNCHANGED <<dataFile, backups, safeties>>]_vars

\* C16 (as claimed): a cycle whose validation fails has written no archival
\* backup and ends, after the restore, with the dataset of before the cycle
\* (stated for runs without any I/O fault or kill); and every archival backup
\* holds a dataset that passes the validation.
C16_ValidationBeforeWrite ==
    /\ (CycleEnded /\ cyc.ok /\ ~ cyc.valid /\ faults = 0)
           => /\ NewBackups = {}
              /\ Content(dataFile) = Content(cyc.pre)
    /\ \A b \in backups : validate_data_file(Written(b.recs, b.mtime))

\* C17 (as claimed): the step that ends a failed cycle restores from the
\* most recent backup of both lineages together, archival and safety: the
\* dataset file gets the content of that backup, and nothing is restored only
\* when there is no backup of either lineage.  Stated for runs without any
\* I/O fault or kill.
C17_RestoreFromLatestOfBothLineages ==
    [][(pc = "returned" /\ pc' = "idle" /\ cyc'.outcome # "success" /\ faults' = 0) =>
          IF backups \cup safeties = {}
          THEN ~ cyc'.restored /\ dataFile' = dataFile
          ELSE /\ cyc'.restored
               /\ \E b \in get_latest_backup(backups \cup safeties) :
                      dataFile'.json = b.json /\ dataFile'.recs = b.recs]_vars

\* C18 (as claimed): when the pass over the backups meets a file it cannot
\* inspect or delete, the cycle still ends with exit code 0 and every other
\* archival backup older than the window has been deleted.
C18_PruneErrorSkipsOneFile ==
    (CycleEnded /\ cyc.pruneFailed # 0)
        => /\ cyc.exit = 0
           /\ \A b \in backups : TooOld(b.mtime) => b.stamp = cyc.pruneFailed

\* C19 (as claimed): the validation passes exactly when the file holds a
\* list that is not empty and whose every element, at any position, has all
\* the required fields; when it does not pass, the cycle is failed.
C19_ValidationChecksEveryElement ==
    pc = "validated" =>
        /\ cyc.valid <=>
               /\ dataFile.exists
               /\ dataFile.json
               /\ dataFile.recs # <<>>
               /\ \A i \in DOMAIN dataFile.recs : RequiredFields \subseteq DOMAIN dataFile.recs[i]
        /\ cyc.ok = cyc.valid

PruneEverFailed == prev.pruneFailed \/ cyc.pruneFailed # 0

\* the copy of a restore failed, in this cycle or before
CopyEverFailed == prev.copyFailed \/ cyc.copyFailed

C21_PrunedByAgeThenNoBackup ==
    /\ Pruned => \A b \in backups : ~ TooOld(b.mtime)
    /\ (CycleEnded /\ cyc.outcome = "irrecoverable" /\ ~ cyc.copyFailed)
           => /\ backups = {}
              /\ cyc.exit = 1
              /\ cyc.pre.exists => (cyc.safety # 0 /\ SafetyKept)

\* C21, witness: in a run without any I/O fault or kill, the cycle before
\* this one restored the valid dataset of a successful cycle from its
\* archival backup and then pruned that backup; this cycle took its safety
\* snapshot, its extraction failed, it found no backup and exited with 1.
C21_Witness ==
    /\ CycleEnded
    /\ faults = 0
    /\ prev.restored
    /\ ExtractionFailed
    /\ cyc.exit = 1
    /\ backups = {}
    /\ validate_data_file(dataFile)
    /\ cyc.safety # 0
    /\ SafetyKept

====
